---- MODULE Spec2Model ----
(***************************************************************************)
(* Model of querier: the fan-out Result iterator (result.py), the          *)
(* Connection's result pool (connection.py) and the Filter query builder   *)
(* (filter.py).                                                            *)
(***************************************************************************)
EXTENDS Integers, Sequences, FiniteSets, TLC

\* ---------------------------------------------------------------- bounds
MaxCursors == 3    \* collections one extraction queries (Spec)
MaxDocs == 2       \* documents a cursor holds
MaxLimit == 2      \* largest argument of limit()
MaxResults == 2    \* extractions of one Connection (SpecPool)
PoolCursors == 2   \* collections queried over a Connection's life (SpecPool)
DeepCursors == 6   \* collections one extraction queries (SpecDeep)
RecursionLimit == 5  \* frames of __next__ the interpreter's stack can hold
                     \* (sys.getrecursionlimit(), scaled to the source counts)
MaxFilters == 2    \* Filter() calls (SpecFilter)
MaxConds == 3      \* condition-adding calls (SpecFilter)
MaxCombines == 1   \* |, &, or_filter, and_filter calls (SpecFilter)
MaxValue == 2      \* values 1..MaxValue given to conditions (SpecFilter)
ChainFilters == 3  \* Filter() calls (SpecChain)
ChainConds == 3    \* condition-adding calls (SpecChain)
ChainCombines == 2 \* |, &, or_filter, and_filter calls (SpecChain)
MaxQueries == 1    \* get_query() calls (SpecQuery)
MaxCoord == 1
MaxColls == 3
MaxCount == 1      \* coordinates 0..MaxCoord of a bounding box (SpecGeo)
GeoFilters == 1    \* Filter() calls (SpecGeo)
GeoConds == 2      \* geo predicate calls (SpecGeo)

\* ------------------------------------------------------ program constants
UNAUTHORIZED_COMMAND == 13
AUTHENTIFICATION_FAILED == 18

VARIABLES
    results,      \* the Result objects created so far, by identity 1..Len
    cursors,      \* the pymongo cursors created so far, by identity 1..Len
    result_pool,  \* Connection._result_pool: identities of Results
    con_open,     \* FALSE once Connection._con.close() ran
    call,         \* the last call of the client: what it returned or raised
                  \* (op "other": a call that is no pull and no extraction;
                  \* r: the Result called or returned, 0 if none)
    log,          \* per Result: documents yielded since the traversal began
    ever,         \* documents yielded by any pull so far
    steady,       \* per Result: limit() not called since the traversal's first document
    asked,        \* per Result: the argument of the last limit() call (0: none yet)
    ended,        \* per Result: a pull of the traversal under way has
                  \* signalled end-of-sequence
    heap,         \* the dict and list objects of the Filters, by identity
    held,         \* the Filter objects the client holds a reference to
    fcall,        \* the last Filter call: what it returned or raised
    calls,        \* how many Filter(), condition and combinator calls were made
    compiled,     \* the get_query() calls made: the object returned and the
                  \* query document it showed when it was returned
    db,           \* the collections of the database, in the order of
                  \* list_collection_names()
    acall         \* the last call on the database: its argument, what it
                  \* returned or raised

rvars == <<results, cursors, result_pool, con_open, call, log, ever, steady, asked,
           ended>>
fvars == <<heap, held, fcall, calls, compiled>>
avars == <<db, acall>>
vars == <<rvars, fvars, avars>>

\* ------------------------------------------------------------- data types
NoDoc == <<>>

\* Codes a pymongo.errors.OperationFailure of a cursor may carry; 0 stands
\* for a cursor that ends with a plain StopIteration.
ErrCodes == {UNAUTHORIZED_COMMAND, AUTHENTIFICATION_FAILED}
EndCodes == {0} \cup ErrCodes

Min(a, b) == IF a <= b THEN a ELSE b
Max(a, b) == IF a >= b THEN a ELSE b

\* codes: the codes of the OperationFailures the cursors raised during the call
Called(op, r, exc, doc, codes) ==
    [op |-> op, r |-> r, exc |-> exc, doc |-> doc, codes |-> codes]

\* -------------------------------------------------------- Result.__init__
NewResult ==
    [cursors |-> <<>>, collection_names |-> <<>>, idx |-> 0,
     docs_returned |-> 0, limit |-> 0]

\* A pymongo cursor on collection `coll`, handed to Result `owner`.  pos:
\* documents it has yielded; live: it has not ended yet; code: how it ended
\* (0: StopIteration, else the code of the OperationFailure it raises).
NewCursor(owner, coll) ==
    [owner |-> owner, coll |-> coll, pos |-> 0, live |-> TRUE, code |-> 0,
     closed |-> FALSE]

\* What the driver may do on the next pull of cursor c: yield a document
\* (doc), or end with StopIteration (code 0) or OperationFailure(code).  A
\* cursor that has ended keeps ending the same way; a closed one is empty.
Fates(c) ==
    IF c.closed THEN {[doc |-> FALSE, code |-> 0]}
    ELSE IF ~c.live THEN {[doc |-> FALSE, code |-> c.code]}
    ELSE {[doc |-> TRUE, code |-> 0] : x \in {y \in {c.pos} : y < MaxDocs}}
         \cup {[doc |-> FALSE, code |-> k] : k \in EndCodes}

\* How a cursor that raised OperationFailure(code) ends on later pulls: it
\* raises the same again, or it is dead and raises StopIteration.
Afterwards(code) == {code, 0}

\* ---------------------------------------------------- Result._add_cursors
add_cursors(res, cs, names) ==
    [res EXCEPT !.cursors = @ \o cs, !.collection_names = @ \o names]

\* -------------------------------------------------------- Result.__iter__
iter(res) == [res EXCEPT !.idx = 0, !.docs_returned = 0]

\* ----------------------------------------------------------- Result.limit
\* mutant: the limit is floored at 1 instead of 0
limit_floor_one(res, qty) == [res EXCEPT !.limit = Max(1, qty)]

limit(res, qty) == [res EXCEPT !.limit = Max(0, qty)]

\* -------------------------------------------------------- Result.__next__
\* mutant: the source list is read from its end
current_cursor_reversed(res) == res.cursors[Len(res.cursors) - res.idx]

\* current_cursor = self._cursors[self._idx]
current_cursor(res) == res.cursors[res.idx + 1]

\* self._idx += 1 before the recursive call
advance(res) == [res EXCEPT !.idx = @ + 1]

\* mutant: the limit is tested with > instead of >=
reached_limit_late(res) == res.docs_returned > res.limit /\ res.limit > 0

\* reached_limit = self._docs_returned >= self._limit and self._limit > 0
reached_limit(res) == res.docs_returned >= res.limit /\ res.limit > 0

finished(res) == res.idx >= Len(res.cursors) \/ reached_limit(res)

\* next(current_cursor) when the driver does f
cursor_next(f) ==
    IF f.doc THEN "doc"
    ELSE IF f.code = 0 THEN "StopIteration"
    ELSE "OperationFailure"

\* mutant: the unauthorized code is handled like any other failure
skips_source_never(code) == FALSE

\* except pymongo.errors.OperationFailure: is the source skipped?
skips_source(code) == ~(code # UNAUTHORIZED_COMMAND)

\* Python's str + x: a str when x is a str, else TypeError is raised.
str_add(x) == IF x = "str" THEN "str" ELSE "TypeError"

\* module_logger.error("Unhandled exception in result: " + err); raise err
\* : the exception that leaves the handler.  err is an exception object,
\* so the concatenation raises before `raise err` is reached.
unhandled(err) ==
    IF str_add(err) = "TypeError" THEN "TypeError" ELSE err

\* One pull: the chain of self.__next__() calls until one of them returns or
\* raises; the set of its possible results, one per behaviour of the driver.
\* ended: <<cursor, code>> for the cursors that ended during the pull.
\* depth: the frames of __next__ on the stack, this one included; the call
\* that would exceed the recursion limit raises RecursionError instead.
RECURSIVE next_at(_, _)
next_at(res, depth) ==
    IF depth > RecursionLimit
    THEN {[res |-> res, exc |-> "RecursionError", doc |-> NoDoc,
           ended |-> {}, codes |-> {}]}
    ELSE IF finished(res)
    THEN {[res |-> res, exc |-> "StopIteration", doc |-> NoDoc, ended |-> {},
           codes |-> {}]}
    ELSE LET cur == current_cursor(res)
             c == cursors[cur]
             skip == next_at(advance(res), depth + 1)
             after(f) ==
                 LET got == cursor_next(f)
                 IN CASE got = "doc" ->
                        {[res |-> [res EXCEPT !.docs_returned = @ + 1],
                          exc |-> "none", doc |-> <<cur, c.pos + 1>>,
                          ended |-> {}, codes |-> {}]}
                      [] got = "StopIteration" ->
                        {[p EXCEPT !.ended = @ \cup {<<cur, 0>>}] : p \in skip}
                      [] got = "OperationFailure" ->
                        IF skips_source(f.code)
                        THEN {[p EXCEPT !.ended = @ \cup {<<cur, k>>},
                                        !.codes = @ \cup {f.code}] :
                                 p \in skip, k \in Afterwards(f.code)}
                        ELSE {[res |-> res,
                               exc |-> unhandled("OperationFailure"),
                               doc |-> NoDoc, ended |-> {<<cur, k>>},
                               codes |-> {f.code}] :
                                 k \in Afterwards(f.code)}
         IN UNION {after(f) : f \in Fates(c)}

next(res) == next_at(res, 1)

\* ----------------------------------------------------------- Result.close
close_cursors(res) ==
    [c \in DOMAIN cursors |->
        IF \E i \in DOMAIN res.cursors : res.cursors[i] = c
        THEN [cursors[c] EXCEPT !.closed = TRUE] ELSE cursors[c]]

\* mutant: the source list is not cleared
close_keeps_list(res) == res

\* self._cursors.clear()
close(res) == [res EXCEPT !.cursors = <<>>]

\* ------------------------------------------------- connection._pymongo_call
\* The decorator around a driver call that raised OperationFailure(code)
\* (code 0: the call returned): what the decorated function does.
pymongo_call(code) ==
    IF code = 0 THEN "return"
    ELSE IF code # UNAUTHORIZED_COMMAND THEN "InternalError"
    ELSE "None"

\* What coll.find / coll.aggregate does for the collections of one call:
\* per collection the code of the OperationFailure raised (0: a cursor is
\* returned).
\* The collections (positions in outs) whose call returned a cursor.
RECURSIVE Found(_, _)
Found(outs, i) ==
    IF i > Len(outs) THEN <<>>
    ELSE IF pymongo_call(outs[i]) = "return"
         THEN <<i>> \o Found(outs, i + 1)
         ELSE Found(outs, i + 1)

\* ------------------------------------------------------------------- Init
RInit ==
    /\ results = <<>>
    /\ cursors = <<>>
    /\ result_pool = <<>>
    /\ con_open = TRUE
    /\ call = Called("init", 0, "none", NoDoc, {})
    /\ log = <<>>
    /\ ever = {}
    /\ steady = <<>>
    /\ ended = <<>>
    /\ asked = <<>>

\* --------------------- CollectionsAccessor.extract / .aggregate (one call)
\* mutant: the Result is returned without being put in the pool
register_forgets(pool, r) == pool

\* self.connection._result_pool.append(r)
register(pool, r) == Append(pool, r)

Extract(budget) ==
    /\ con_open
    /\ \E n \in 0..(budget - Len(cursors)) :
       \E outs \in [1..n -> EndCodes] :
         IF \E i \in 1..n : pymongo_call(outs[i]) = "InternalError"
         THEN /\ call' = Called("extract", 0, "InternalError", NoDoc, {})
              /\ UNCHANGED <<results, cursors, result_pool, con_open, log,
                             ever, steady, asked, ended>>
         ELSE LET r == Len(results) + 1
                  names == Found(outs, 1)
                  base == Len(cursors)
                  cs == [k \in 1..Len(names) |-> base + k]
                  made == [k \in 1..Len(names) |->
                             NewCursor(r, names[k])]
              IN /\ results' = Append(results, add_cursors(NewResult, cs, names))
                 /\ cursors' = cursors \o made
                 /\ result_pool' = register(result_pool, r)
                 /\ call' = Called("extract", r, "none", NoDoc, {})
                 /\ log' = Append(log, <<>>)
                 /\ steady' = Append(steady, TRUE)
                 /\ ended' = Append(ended, FALSE)
                 /\ asked' = Append(asked, 0)
                 /\ UNCHANGED <<con_open, ever>>

\* ---------------------------------------------------------- iter(result)
\* mutant: a new traversal rewinds the cursors of the Result
IterRewinds(r) ==
    /\ results' = [results EXCEPT ![r] = iter(@)]
    /\ cursors' = [c \in DOMAIN cursors |->
                      IF cursors[c].owner = r /\ ~cursors[c].closed
                      THEN [cursors[c] EXCEPT !.pos = 0, !.live = TRUE]
                      ELSE cursors[c]]
    /\ log' = [log EXCEPT ![r] = <<>>]
    /\ steady' = [steady EXCEPT ![r] = TRUE]
    /\ ended' = [ended EXCEPT ![r] = FALSE]
    /\ call' = Called("other", r, "none", NoDoc, {})
    /\ UNCHANGED <<result_pool, con_open, ever, asked>>

Iter(r) ==
    /\ results' = [results EXCEPT ![r] = iter(@)]
    /\ log' = [log EXCEPT ![r] = <<>>]
    /\ steady' = [steady EXCEPT ![r] = TRUE]
    /\ ended' = [ended EXCEPT ![r] = FALSE]
    /\ call' = Called("other", r, "none", NoDoc, {})
    /\ UNCHANGED <<cursors, result_pool, con_open, ever, asked>>

\* ------------------------------------------------------ result.limit(qty)
Limit(r, qty) ==
    /\ results' = [results EXCEPT ![r] = limit(@, qty)]
    /\ steady' = [steady EXCEPT ![r] = @ /\ log[r] = <<>>]
    /\ call' = Called("other", r, "none", NoDoc, {})
    /\ asked' = [asked EXCEPT ![r] = qty]
    /\ UNCHANGED <<cursors, result_pool, con_open, log, ever, ended>>

\* ----------------------------------------------------------- next(result)
Pull(r) ==
    \E p \in next(results[r]) :
         /\ cursors' = [c \in DOMAIN cursors |->
                IF p.doc # NoDoc /\ p.doc[1] = c
                THEN [cursors[c] EXCEPT !.pos = @ + 1]
                ELSE IF \E e \in p.ended : e[1] = c /\ ~cursors[c].closed
                THEN [cursors[c] EXCEPT
                         !.live = FALSE,
                         !.code = (CHOOSE e \in p.ended : e[1] = c)[2]]
                ELSE cursors[c]]
         /\ results' = [results EXCEPT ![r] = p.res]
         /\ call' = Called("next", r, p.exc, p.doc, p.codes)
         /\ log' = IF p.doc # NoDoc THEN [log EXCEPT ![r] = Append(@, p.doc)]
                   ELSE log
         /\ ever' = IF p.doc # NoDoc THEN ever \cup {p.doc} ELSE ever
         /\ ended' = [ended EXCEPT ![r] = @ \/ p.exc = "StopIteration"]
         /\ UNCHANGED <<result_pool, con_open, steady, asked>>

\* ---------------------------------------------------------- result.close()
Close(r) ==
    /\ cursors' = close_cursors(results[r])
    /\ results' = [results EXCEPT ![r] = close(@)]
    /\ call' = Called("other", r, "none", NoDoc, {})
    /\ UNCHANGED <<result_pool, con_open, log, ever, steady, asked, ended>>

\* ------------------------------------ Connection.close / __exit__ / __del__
RECURSIVE close_all(_, _, _)
close_all(pool, rs, cs) ==
    IF pool = <<>> THEN [results |-> rs, cursors |-> cs]
    ELSE LET r == Head(pool)
             mine == {rs[r].cursors[i] : i \in DOMAIN rs[r].cursors}
         IN close_all(Tail(pool),
                      [rs EXCEPT ![r] = close(@)],
                      [c \in DOMAIN cs |->
                          IF c \in mine THEN [cs[c] EXCEPT !.closed = TRUE]
                          ELSE cs[c]])

ConnClose ==
    LET done == close_all(result_pool, results, cursors)
    IN /\ results' = done.results
       /\ cursors' = done.cursors
       /\ con_open' = FALSE
       /\ call' = Called("other", 0, "none", NoDoc, {})
       /\ UNCHANGED <<result_pool, log, ever, steady, asked, ended>>

\* ================================================================== Filter
\* A value stored in a dict or a list, or passed as an argument: a reference
\* to an object of the heap (k = "ref"), a number (k = "int"), a geometry
\* document (k = "geo"), a str (k = "str") or a list literal (k = "list").
Ref(id) == [k |-> "ref", v |-> id]
Num(n) == [k |-> "int", v |-> n]
Geo(n) == [k |-> "geo", v |-> n]
Str(s) == [k |-> "str", v |-> s]
Lst(n) == [k |-> "list", v |-> n]

\* isinstance(x, str), isinstance(x, list)
isinstance_str(x) == x.k = "str"
isinstance_list(x) == x.k = "list"

Values == {Num(n) : n \in 1..MaxValue}

\* The field names the client passes, "$or" being a legal str too.
FieldIds == {"x", "y", "$or"}
Fields == {Str(s) : s \in FieldIds}

\* The field names of the specifications that combine Filters.
ChainFields == {Str("x"), Str("y")}

\* A field_id argument that is no str.
NonStrFields == {Num(1)}

\* The values argument of any_of / none_of: a list, a bare str, a number.
ListValues == {Lst(1), Lst(2)}
NonListValues == {Str("ES"), Num(1)}

\* Condition methods and the operator each one passes to _add_operation.
Methods == [equals |-> "$eq", greater_than |-> "$gt"]

\* The condition methods that take a list of values, and their operator.
ListMethods == [any_of |-> "$in", none_of |-> "$nin"]

\* Geo predicates and their operator.
GeoMethods == [geo_within |-> "$geoWithin"]

\* Both geo predicates, for the specifications about geometries.
BoxMethods ==
    [geo_within |-> "$geoWithin", geo_intersects |-> "$geoIntersects"]

\* Bounding boxes (min_x, min_y, max_x, max_y), and the box of the calls
\* that do not vary the geometry.
Boxes == [1..4 -> 0..MaxCoord]
UnitBox == <<0, 0, 1, 1>>

\* The geo_type arguments: two names of a box and a name _geo_op rejects
\* (the names ending in "Polygon" are not among them).
GeoTypes == {"bbox", "bounding_box", "circle"}

\* |, &, or_filter, and_filter: the op each one passes to _logical_op.
Combinators ==
    [pipe |-> "$or", amp |-> "$and", or_filter |-> "$or", and_filter |-> "$and"]

\* Filter() and {}: a Filter is a dict; items are <<key, value>> in
\* insertion order.
NewFilter == [type |-> "Filter", items |-> <<>>]
NewDict == [type |-> "dict", items |-> <<>>]
NewList(vs) == [type |-> "list", items |-> vs]

Item(key, val) == [key |-> key, val |-> val]

\* dict.keys(), `key in d`, d[key], d[key] = val
Keys(o) == [i \in DOMAIN o.items |-> o.items[i].key]
Has(o, key) == \E i \in DOMAIN o.items : o.items[i].key = key
Get(o, key) == o.items[CHOOSE i \in DOMAIN o.items : o.items[i].key = key].val
Put(o, key, val) ==
    IF Has(o, key)
    THEN [o EXCEPT !.items =
            [i \in DOMAIN o.items |->
                IF o.items[i].key = key THEN Item(key, val) ELSE o.items[i]]]
    ELSE [o EXCEPT !.items = Append(@, Item(key, val))]

\* Python's == on two values: numbers by value, dicts by their key sets and
\* the values under each key, lists item by item.
RECURSIVE py_eq(_, _, _, _)
py_eq(h, a, b, fuel) ==
    IF a.k # "ref" \/ b.k # "ref" THEN a = b
    ELSE IF a.v = b.v THEN TRUE
    ELSE IF fuel = 0 THEN FALSE
    ELSE LET x == h[a.v]
             y == h[b.v]
         IN IF (x.type = "list") # (y.type = "list") THEN FALSE
            ELSE IF x.type = "list"
            THEN /\ Len(x.items) = Len(y.items)
                 /\ \A i \in DOMAIN x.items :
                       py_eq(h, x.items[i], y.items[i], fuel - 1)
            ELSE /\ Len(x.items) = Len(y.items)
                 /\ \A i \in DOMAIN x.items :
                       /\ Has(y, x.items[i].key)
                       /\ py_eq(h, x.items[i].val, Get(y, x.items[i].key),
                                fuel - 1)

\* The result of a method: the heap after it, what it raised, what it
\* returned (an object identity, 0 when it raised).
Done(h, exc, ret) == [heap |-> h, exc |-> exc, ret |-> ret]

\* Filter.is_empty
is_empty_one_key(h, self) == Len(h[self].items) <= 1

is_empty(h, self) == Len(h[self].items) = 0

\* Filter.copy: a new Filter holding the same values (a shallow copy)
copy(h, self) == Append(h, [type |-> "Filter", items |-> h[self].items])

\* Filter._add_operation
add_operation_resets(h, self, field_id, operation, value, invert) ==
    IF ~isinstance_str(field_id) THEN Done(h, "InvalidFilter", 0)
    ELSE Done([Append(h, [type |-> "dict",
                          items |-> <<Item(operation, value)>>]) EXCEPT
                 ![self] = Put(@, field_id.v, Ref(Len(h) + 1))],
              "none", self)

add_operation_ignores_invert(h, self, field_id, operation, value, invert) ==
    IF ~isinstance_str(field_id) THEN Done(h, "InvalidFilter", 0)
    ELSE
    LET h1 == IF ~Has(h[self], field_id.v)
              THEN [Append(h, NewDict) EXCEPT
                      ![self] = Put(@, field_id.v, Ref(Len(h) + 1))]
              ELSE h
        target == Get(h1[self], field_id.v).v
    IN Done([h1 EXCEPT ![target] = Put(@, operation, value)], "none", self)

add_operation(h, self, field_id, operation, value, invert) ==
    IF ~isinstance_str(field_id) THEN Done(h, "InvalidFilter", 0)
    ELSE
    LET h1 == IF ~Has(h[self], field_id.v)
              THEN [Append(h, NewDict) EXCEPT
                      ![self] = Put(@, field_id.v, Ref(Len(h) + 1))]
              ELSE h
        target == Get(h1[self], field_id.v).v
    IN IF h1[target].type = "list"
       \* target[...] = ... on a list: list indices must be integers
       THEN Done(h1, "TypeError", 0)
       ELSE IF invert
       THEN LET h2 == IF ~Has(h1[target], "$not")
                      THEN [Append(h1, NewDict) EXCEPT
                              ![target] = Put(@, "$not", Ref(Len(h1) + 1))]
                      ELSE h1
                inner == Get(h2[target], "$not").v
            IN Done([h2 EXCEPT ![inner] = Put(@, operation, value)], "none", self)
       ELSE Done([h1 EXCEPT ![target] = Put(@, operation, value)], "none", self)

\* Filter.any_of, Filter.none_of
list_cond_unchecked(h, self, field_id, operation, values) ==
    add_operation(h, self, field_id, operation, values, FALSE)

list_cond(h, self, field_id, operation, values) ==
    IF ~isinstance_list(values) THEN Done(h, "InvalidFilter", 0)
    ELSE add_operation(h, self, field_id, operation, values, FALSE)

\* geo_type.lower().endswith("box"), for the names of GeoTypes
lower_endswith_box(geo_type) == geo_type \in {"bbox", "bounding_box"}

\* Filter._geo_op, box branch: the ring of the rectangle
box_ring_open(geo) ==
    << <<geo[1], geo[2]>>, <<geo[1], geo[4]>>, <<geo[3], geo[4]>>,
       <<geo[3], geo[2]>> >>

box_ring(geo) ==
    << <<geo[1], geo[2]>>, <<geo[1], geo[4]>>, <<geo[3], geo[4]>>,
       <<geo[3], geo[2]>>, <<geo[1], geo[2]>> >>

\* Filter._geo_op, box branch: geo_dict
box_polygon(geo) == [coordinates |-> <<box_ring(geo)>>, type |-> "Polygon"]

\* Filter._geo_op for a geo_type that does not end in "Polygon"; the value
\* stored is {"$geometry": geo_dict}.
geo_op(h, self, op, field_id, geo, geo_type, invert) ==
    IF lower_endswith_box(geo_type)
    THEN add_operation(h, self, field_id, op, Geo(box_polygon(geo)), invert)
    ELSE Done(h, "ValueError", 0)

\* Filter._logical_op
logical_op_no_self_check(h, self, op, other) ==
    IF is_empty(h, self) \/ Len(h[other].items) = 0
    THEN Done(h, "InvalidFilter", 0)
    ELSE LET h1 == copy(h, self)
             h2 == Append(h1, NewList(<<Ref(Len(h1)), Ref(other)>>))
             h3 == Append(h2, [type |-> "Filter",
                               items |-> <<Item(op, Ref(Len(h2)))>>])
         IN Done(h3, "none", Len(h3))

logical_op(h, self, op, other) ==
    IF is_empty(h, self) \/ Len(h[other].items) = 0
    THEN Done(h, "InvalidFilter", 0)
    ELSE IF py_eq(h, Ref(other), Ref(self), Len(h))
    THEN Done(h, "InvalidFilter", 0)
    ELSE IF Keys(h[self]) = <<op>>
    THEN LET h1 == copy(h, self)
             res == Len(h1)
             operands == Get(h1[res], op).v
         IN IF h1[operands].type # "list"
            \* res[op].append on a dict; the copy is dropped with the frame
            THEN Done(h, "AttributeError", 0)
            ELSE Done([h1 EXCEPT ![operands].items = Append(@, Ref(other))],
                      "none", res)
    ELSE LET h1 == copy(h, self)
             h2 == Append(h1, NewList(<<Ref(Len(h1)), Ref(other)>>))
             h3 == Append(h2, [type |-> "Filter",
                               items |-> <<Item(op, Ref(Len(h2)))>>])
         IN Done(h3, "none", Len(h3))

\* Filter.__or__, __and__, or_filter, and_filter: `self = self | other`
\* binds the local name only.
combine(h, self, how, other) == logical_op(h, self, Combinators[how], other)

\* Filter.get_query
get_query(h, self) == Done(h, "none", self)

\* The content of a value: a number or document as it is, an object of the
\* heap with the content of each of its items in place of the references.
RECURSIVE Content(_, _, _)
Content(h, v, fuel) ==
    IF v.k # "ref" THEN v
    ELSE IF fuel = 0 THEN [k |-> "deeper"]
    ELSE LET o == h[v.v]
         IN [k |-> IF o.type = "list" THEN "list" ELSE "dict",
             v |-> [i \in DOMAIN o.items |->
                      IF o.type = "list"
                      THEN Content(h, o.items[i], fuel - 1)
                      ELSE [key |-> o.items[i].key,
                            val |-> Content(h, o.items[i].val, fuel - 1)]]]

\* The query document of Filter f in heap h.
QueryOf(h, f) == Content(h, Ref(f), Len(h))

\* The last call: the method, its receiver, what it raised and returned.
FCalled(op, self, exc, ret) ==
    [op |-> op, self |-> self, exc |-> exc, ret |-> ret]

FInit ==
    /\ heap = <<>>
    /\ held = {}
    /\ fcall = FCalled("init", 0, "none", 0)
    /\ calls = [new |-> 0, cond |-> 0, comb |-> 0]
    /\ compiled = {}

\* f = Filter()
New ==
    /\ calls' = [calls EXCEPT !.new = @ + 1]
    /\ heap' = Append(heap, NewFilter)
    /\ held' = held \cup {Len(heap) + 1}
    /\ fcall' = FCalled("Filter", 0, "none", Len(heap) + 1)
    /\ compiled' = compiled

FNew == calls.new < MaxFilters /\ New

\* f.equals(field, v), f.greater_than(field, v)
Cond(f, m, field, v) ==
    LET d == add_operation(heap, f, field, Methods[m], v, FALSE)
    IN /\ calls' = [calls EXCEPT !.cond = @ + 1]
       /\ heap' = d.heap
       /\ held' = held
       /\ fcall' = FCalled(m, f, d.exc, d.ret)
       /\ compiled' = compiled

FCond(f, m, field, v) == calls.cond < MaxConds /\ Cond(f, m, field, v)

\* f.any_of(field, values), f.none_of(field, values)
ListCond(f, m, field, values) ==
    LET d == list_cond(heap, f, field, ListMethods[m], values)
    IN /\ calls' = [calls EXCEPT !.cond = @ + 1]
       /\ heap' = d.heap
       /\ held' = held
       /\ fcall' = FCalled(m, f, d.exc, d.ret)
       /\ compiled' = compiled

FListCond(f, m, field, values) ==
    calls.cond < MaxConds /\ ListCond(f, m, field, values)

\* f.geo_within(field, box, "bbox", invert)
GeoCond(f, g, field, invert) ==
    LET d == geo_op(heap, f, GeoMethods[g], field, UnitBox, "bbox", invert)
    IN /\ calls' = [calls EXCEPT !.cond = @ + 1]
       /\ heap' = d.heap
       /\ held' = held
       /\ fcall' = FCalled(g, f, d.exc, d.ret)
       /\ compiled' = compiled

FGeo(f, g, field, invert) ==
    calls.cond < MaxConds /\ GeoCond(f, g, field, invert)

\* f.geo_within(field, geo, geo_type, invert), f.geo_intersects(...)
BoxCond(f, g, field, geo, geo_type, invert) ==
    LET d == geo_op(heap, f, BoxMethods[g], field, geo, geo_type, invert)
    IN /\ calls' = [calls EXCEPT !.cond = @ + 1]
       /\ heap' = d.heap
       /\ held' = held
       /\ fcall' = FCalled(g, f, d.exc, d.ret)
       /\ compiled' = compiled

FBox(f, g, field, geo, geo_type, invert) ==
    calls.cond < GeoConds /\ BoxCond(f, g, field, geo, geo_type, invert)

\* f | other, f & other, f.or_filter(other), f.and_filter(other)
Logical(f, how, other) ==
    LET d == combine(heap, f, how, other)
    IN /\ calls' = [calls EXCEPT !.comb = @ + 1]
       /\ heap' = d.heap
       /\ held' = IF d.exc = "none" THEN held \cup {d.ret} ELSE held
       /\ fcall' = FCalled(how, f, d.exc, d.ret)
       /\ compiled' = compiled

FLogical(f, how, other) ==
    calls.comb < MaxCombines /\ Logical(f, how, other)

\* q = f.get_query()
Query(f) ==
    LET d == get_query(heap, f)
    IN /\ calls' = calls
       /\ heap' = d.heap
       /\ held' = held \cup {d.ret}
       /\ fcall' = FCalled("get_query", f, d.exc, d.ret)
       /\ compiled' = compiled \cup
             {[ret |-> d.ret, doc |-> QueryOf(d.heap, d.ret)]}

FQuery(f) == Cardinality(compiled) < MaxQueries /\ Query(f)

\* ------------------------------------------------------------------- Next
\* ============================================================= the database
\* The names a collection may have; "system" in n holds for two of them.
CollNames == {"tweets", "places", "system.profile", "system.users"}
SystemNames == {"system.profile", "system.users"}
in_system(n) == n \in SystemNames

None == [k |-> "None", v |-> 0]

\* A collection: its name, what estimated_document_count() and
\* count_documents(query) return, and the code of the OperationFailure its
\* count calls raise (0: they return).
Collections ==
    {c \in [name : CollNames, docs : 0..MaxCount, matching : 0..MaxCount,
            code : EndCodes] : c.matching <= c.docs}

names_of(colls) == [i \in DOMAIN colls |-> colls[i].name]

\* names.remove(n): the first element equal to n is taken out.
RECURSIVE remove(_, _)
remove(names, n) ==
    IF names = <<>> THEN <<>>
    ELSE IF Head(names) = n THEN Tail(names)
    ELSE <<Head(names)>> \o remove(Tail(names), n)

\* for n in names: if "system" in n: names.remove(n)
\* The loop reads names[i] and moves on to i + 1 whatever the body did to
\* the list.
RECURSIVE remove_system(_, _)
remove_system(names, i) ==
    IF i > Len(names) THEN names
    ELSE IF in_system(names[i])
         THEN remove_system(remove(names, names[i]), i + 1)
         ELSE remove_system(names, i + 1)

ACalled(op, arg, exc, ret) ==
    [op |-> op, arg |-> arg, exc |-> exc, ret |-> ret]

\* What a decorated function does when its body raised
\* OperationFailure(code), and when it returned ret (code 0).
decorated(op, arg, code, ret) ==
    IF pymongo_call(code) = "return" THEN ACalled(op, arg, "none", ret)
    ELSE IF pymongo_call(code) = "None" THEN ACalled(op, arg, "none", None)
    ELSE ACalled(op, arg, "InternalError", None)

\* Connection.list_available_collections() when list_collection_names()
\* raised OperationFailure(code) or returned names (code 0).
list_available_collections(names, code) ==
    decorated("list_available_collections", code, code,
              Lst(remove_system(names, 1)))

\* internal_count: the total over the collections from the i-th on, and the
\* code of the first OperationFailure raised (0: none).
RECURSIVE internal_count(_, _, _)
internal_count(colls, empty, i) ==
    IF i > Len(colls) THEN [code |-> 0, total |-> 0]
    ELSE IF colls[i].code # 0 THEN [code |-> colls[i].code, total |-> 0]
    ELSE LET rest == internal_count(colls, empty, i + 1)
         IN [code |-> rest.code,
             total |-> rest.total + (IF empty THEN colls[i].docs
                                     ELSE colls[i].matching)]

\* CollectionsAccessor.count_entries(filter) over colls; empty: the query of
\* the filter is {}.
count_entries(colls, empty) ==
    LET c == internal_count(colls, empty, 1)
    IN decorated("count_entries", IF empty THEN 1 ELSE 0, c.code, Num(c.total))

AInit ==
    /\ db = <<>>
    /\ acall = ACalled("init", 0, "none", None)

\* A collection is created in the database.
CreateCollection(c) ==
    /\ Len(db) < MaxColls
    /\ \A i \in DOMAIN db : db[i].name # c.name
    /\ db' = Append(db, c)
    /\ acall' = ACalled("create", 0, "none", None)

\* con.list_available_collections()
ListAvailable(code) ==
    /\ acall' = list_available_collections(names_of(db), code)
    /\ db' = db

\* con[:].count_entries(filter)
CountEntries(empty) ==
    /\ acall' = count_entries(db, empty)
    /\ db' = db

Init == RInit /\ FInit /\ AInit

\* Spec: one extraction and every use of its Result and of the Connection.
ExtractOne == results = <<>> /\ Extract(MaxCursors)

Next ==
    \/ ExtractOne /\ UNCHANGED <<fvars, avars>>
    \/ \E r \in DOMAIN results : Iter(r) /\ UNCHANGED <<fvars, avars>>
    \/ \E r \in DOMAIN results : \E qty \in -1..MaxLimit :
          Limit(r, qty) /\ UNCHANGED <<fvars, avars>>
    \/ \E r \in DOMAIN results : Pull(r) /\ UNCHANGED <<fvars, avars>>
    \/ \E r \in DOMAIN results : Close(r) /\ UNCHANGED <<fvars, avars>>
    \/ ConnClose /\ UNCHANGED <<fvars, avars>>

Spec == Init /\ [][Next]_vars

\* SpecPool: several extractions of one Connection, their Results used in
\* any interleaving.
ExtractMore == Len(results) < MaxResults /\ Extract(PoolCursors)

PoolNext ==
    \/ ExtractMore /\ UNCHANGED <<fvars, avars>>
    \/ \E r \in DOMAIN results : Iter(r) /\ UNCHANGED <<fvars, avars>>
    \/ \E r \in DOMAIN results : \E qty \in -1..MaxLimit :
          Limit(r, qty) /\ UNCHANGED <<fvars, avars>>
    \/ \E r \in DOMAIN results : Pull(r) /\ UNCHANGED <<fvars, avars>>
    \/ \E r \in DOMAIN results : Close(r) /\ UNCHANGED <<fvars, avars>>
    \/ ConnClose /\ UNCHANGED <<fvars, avars>>

SpecPool == Init /\ [][PoolNext]_vars

\* SpecDeep: one extraction over many collections, traversed by pulls only.
ExtractDeep == results = <<>> /\ Extract(DeepCursors)

DeepNext ==
    \/ ExtractDeep /\ UNCHANGED <<fvars, avars>>
    \/ \E r \in DOMAIN results : Pull(r) /\ UNCHANGED <<fvars, avars>>

SpecDeep == Init /\ [][DeepNext]_vars

\* SpecFilter: Filters built and combined through the public methods.
FilterNext ==
    \/ FNew /\ UNCHANGED <<rvars, avars>>
    \/ \E f \in held, m \in DOMAIN Methods, field \in Fields, v \in Values :
          FCond(f, m, field, v) /\ UNCHANGED <<rvars, avars>>
    \/ \E f \in held, g \in DOMAIN GeoMethods, field \in Fields,
          invert \in BOOLEAN :
          FGeo(f, g, field, invert) /\ UNCHANGED <<rvars, avars>>
    \/ \E f \in held, other \in held, how \in DOMAIN Combinators :
          FLogical(f, how, other) /\ UNCHANGED <<rvars, avars>>

SpecFilter == Init /\ [][FilterNext]_vars

\* SpecArgs: condition calls on leaf Filters with well-formed and malformed
\* arguments.
ArgsNext ==
    \/ FNew /\ UNCHANGED <<rvars, avars>>
    \/ \E f \in held, m \in DOMAIN Methods, field \in Fields \cup NonStrFields,
          v \in Values :
          FCond(f, m, field, v) /\ UNCHANGED <<rvars, avars>>
    \/ \E f \in held, m \in DOMAIN ListMethods,
          field \in Fields \cup NonStrFields,
          values \in ListValues \cup NonListValues :
          FListCond(f, m, field, values) /\ UNCHANGED <<rvars, avars>>
    \/ \E f \in held, g \in DOMAIN GeoMethods,
          field \in Fields \cup NonStrFields, invert \in BOOLEAN :
          FGeo(f, g, field, invert) /\ UNCHANGED <<rvars, avars>>

SpecArgs == Init /\ [][ArgsNext]_vars

\* SpecGeo: geo predicates given bounding boxes.
GeoNew == calls.new < GeoFilters /\ New

GeoNext ==
    \/ GeoNew /\ UNCHANGED <<rvars, avars>>
    \/ \E f \in held, g \in DOMAIN BoxMethods, field \in ChainFields,
          geo \in Boxes, geo_type \in GeoTypes, invert \in BOOLEAN :
          FBox(f, g, field, geo, geo_type, invert) /\ UNCHANGED <<rvars, avars>>

SpecGeo == Init /\ [][GeoNext]_vars

\* SpecQuery: Filters compiled by get_query() and used afterwards.
QueryNext ==
    \/ FNew /\ UNCHANGED <<rvars, avars>>
    \/ \E f \in held, field \in ChainFields, v \in Values :
          FCond(f, "equals", field, v) /\ UNCHANGED <<rvars, avars>>
    \/ \E f \in held, other \in held, how \in DOMAIN Combinators :
          FLogical(f, how, other) /\ UNCHANGED <<rvars, avars>>
    \/ \E f \in held : FQuery(f) /\ UNCHANGED <<rvars, avars>>

SpecQuery == Init /\ [][QueryNext]_vars

\* SpecChain: three Filters of one condition each, combined twice.

ChainNew == calls.new < ChainFilters /\ New
ChainCond(f, field, v) ==
    calls.cond < ChainConds /\ Cond(f, "equals", field, v)
ChainLogical(f, how, other) ==
    calls.comb < ChainCombines /\ Logical(f, how, other)

ChainNext ==
    \/ ChainNew /\ UNCHANGED <<rvars, avars>>
    \/ \E f \in held, field \in ChainFields, v \in Values :
          ChainCond(f, field, v) /\ UNCHANGED <<rvars, avars>>
    \/ \E f \in held, other \in held, how \in DOMAIN Combinators :
          ChainLogical(f, how, other) /\ UNCHANGED <<rvars, avars>>

SpecChain == Init /\ [][ChainNext]_vars

\* SpecAccess: the collections of a database listed and counted.
AccessNext ==
    \/ \E c \in Collections : CreateCollection(c) /\ UNCHANGED <<rvars, fvars>>
    \/ \E code \in EndCodes : ListAvailable(code) /\ UNCHANGED <<rvars, fvars>>
    \/ \E empty \in BOOLEAN : CountEntries(empty) /\ UNCHANGED <<rvars, fvars>>

SpecAccess == Init /\ [][AccessNext]_vars

\* =================================================================== claims
Range(q) == {q[i] : i \in DOMAIN q}

\* The cursors extract attached to Result r, and the position of one of
\* them in the source list as attached (0-based, like _idx).
Owned(r) == {c \in DOMAIN cursors : cursors[c].owner = r}
SourceIndex(r, c) == Cardinality({d \in Owned(r) : d < c})

\* The source has signalled exhaustion or the unauthorized code.
Signalled(c) ==
    ~cursors[c].live /\ cursors[c].code \in {0, UNAUTHORIZED_COMMAND}

LastPull(r) == call.op = "next" /\ call.r = r

\* C1: within one traversal documents are yielded in the order of the source
\* list: the documents yielded since the traversal began are sorted by source
\* position and, within one source, by cursor position; every source before
\* the current index, and every source before one that has yielded, has
\* signalled exhaustion or the unauthorized code.
C1_SourceOrder ==
    \A r \in DOMAIN results :
        /\ \A a, b \in DOMAIN log[r] :
              a < b =>
                \/ SourceIndex(r, log[r][a][1]) < SourceIndex(r, log[r][b][1])
                \/ /\ log[r][a][1] = log[r][b][1]
                   /\ log[r][b][2] = log[r][a][2] + (b - a)
        /\ \A i \in DOMAIN results[r].cursors :
              i <= results[r].idx => Signalled(results[r].cursors[i])
        /\ \A a \in DOMAIN log[r] : \A c \in Owned(r) :
              c < log[r][a][1] => Signalled(c)

\* C1 witness: one traversal has yielded both documents of the first source
\* and then a document of the third, the second having signalled.
C1_Witness ==
    \E r \in DOMAIN results :
        /\ Len(results[r].cursors) = 3
        /\ Len(log[r]) = 3
        /\ log[r][2] = <<results[r].cursors[1], 2>>
        /\ log[r][3] = <<results[r].cursors[3], 1>>

\* C2: with a positive limit n in force (not changed after the traversal's
\* first document) the running count of yielded documents never exceeds n,
\* and a pull made when the count has reached n ends the sequence without
\* pulling from any cursor, whatever sources remain.
C2_CountWithin ==
    \A r \in DOMAIN results :
        results[r].limit > 0 /\ steady[r] =>
            /\ Len(log[r]) <= results[r].limit
            /\ results[r].docs_returned = Len(log[r])

C2_AtLimitStep ==
    \A r \in DOMAIN results :
        (/\ results[r].limit > 0
         /\ Len(log[r]) >= results[r].limit
         /\ results[r].docs_returned = Len(log[r])
         /\ call'.op = "next" /\ call'.r = r)
        => /\ call'.exc = "StopIteration"
           /\ call'.doc = NoDoc
           /\ cursors' = cursors
           /\ log' = log

RECURSIVE DocsOf(_)
DocsOf(cs) ==
    IF cs = <<>> THEN <<>>
    ELSE [k \in 1..cursors[Head(cs)].pos |-> <<Head(cs), k>>] \o DocsOf(Tail(cs))

\* No document of r was yielded before the traversal under way began.
FirstTraversal(r) ==
    \A d \in ever : cursors[d[1]].owner = r => d \in Range(log[r])

\* r has not been closed: it still holds the cursors attached to it.
Open(r) == Range(results[r].cursors) = Owned(r)

AllEnded(r) == \A c \in Owned(r) : ~cursors[c].live

\* C3: a pull in which cursors raise only OperationFailures of the
\* unauthorized code raises no error, and the source is skipped as an
\* exhausted one is: a first traversal that ends because the sources ran out
\* has yielded every document of every source, in order.
C3_UnauthorizedSkipped ==
    \A r \in DOMAIN results :
        /\ (LastPull(r) /\ call.codes \subseteq {UNAUTHORIZED_COMMAND})
              => call.exc \in {"none", "StopIteration"}
        /\ (/\ LastPull(r) /\ call.exc = "StopIteration"
            /\ Open(r) /\ FirstTraversal(r)
            /\ ~(results[r].limit > 0 /\ Len(log[r]) >= results[r].limit))
              => /\ AllEnded(r)
                 /\ log[r] = DocsOf(results[r].cursors)

\* C3 witness: three sources, the second raised the unauthorized code on its
\* first pull, the first and the third yielded two documents each, and the
\* traversal has ended without an error.
C3_Witness ==
    \E r \in DOMAIN results :
        /\ Len(results[r].cursors) = 3
        /\ LET c1 == results[r].cursors[1]
               c2 == results[r].cursors[2]
               c3 == results[r].cursors[3]
           IN /\ cursors[c2].pos = 0
              /\ ~cursors[c2].live
              /\ cursors[c2].code = UNAUTHORIZED_COMMAND
              /\ log[r] = << <<c1, 1>>, <<c1, 2>>, <<c3, 1>>, <<c3, 2>> >>
        /\ LastPull(r) /\ call.exc = "StopIteration"
        /\ results[r].limit = 0

\* C4: close() closes every attached cursor and empties the source list; a
\* Result with an empty source list keeps it, every pull on it ends the
\* sequence at once without a document or an error, and closing it again
\* changes nothing.
C4_ClosedInv ==
    \A c \in DOMAIN cursors :
        cursors[c].closed => c \notin Range(results[cursors[c].owner].cursors)

C4_Step ==
    \A r \in DOMAIN results :
        /\ Close(r) =>
              /\ results'[r].cursors = <<>>
              /\ \A c \in Range(results[r].cursors) : cursors'[c].closed
              /\ results[r].cursors = <<>> =>
                    (results' = results /\ cursors' = cursors)
        /\ results[r].cursors = <<>> =>
              /\ results'[r].cursors = <<>>
              /\ (call'.op = "next" /\ call'.r = r) =>
                    /\ call'.exc = "StopIteration"
                    /\ call'.doc = NoDoc
                    /\ log' = log
                    /\ cursors' = cursors

C4_CloseEnds == [](C4_ClosedInv) /\ [][C4_Step]_vars

\* C4 witness: a Result with a limit was closed in the middle of a traversal,
\* below its limit and with a source that had more to give, and the pull
\* after the close ended the sequence.
C4_Witness ==
    \E r \in DOMAIN results :
        /\ results[r].cursors = <<>>
        /\ \E c \in Owned(r) :
              cursors[c].closed /\ cursors[c].live /\ cursors[c].pos = 1
        /\ Len(log[r]) = 1
        /\ results[r].limit = MaxLimit
        /\ LastPull(r) /\ call.exc = "StopIteration"

\* C5: a pull in which a cursor raised an OperationFailure of another code
\* than the unauthorized one raises InternalError to its caller.
C5_InternalError ==
    \A r \in DOMAIN results :
        (LastPull(r) /\ \E k \in call.codes : k # UNAUTHORIZED_COMMAND)
            => call.exc = "InternalError"

\* C6: __iter__ resets the source index and the running count and nothing
\* else; no step rewinds a cursor; a pull never yields a document that was
\* yielded before, and never takes one from a source that has ended.
C6_Step ==
    /\ \A r \in DOMAIN results :
          Iter(r) =>
            /\ cursors' = cursors
            /\ results'[r].idx = 0 /\ results'[r].docs_returned = 0
            /\ results'[r].cursors = results[r].cursors
            /\ results'[r].limit = results[r].limit
    /\ \A c \in DOMAIN cursors :
          /\ cursors'[c].pos >= cursors[c].pos
          /\ ~cursors[c].live => ~cursors'[c].live
    /\ (call'.op = "next" /\ call'.doc # NoDoc) =>
          /\ call'.doc \notin ever
          /\ cursors[call'.doc[1]].live
          /\ ever' = ever \cup {call'.doc}

C6_NoRewind == [][C6_Step]_vars

\* C6 witness: with limit 1, a second traversal has yielded the second
\* document of the first source, after passing an unchanged index reset.
C6_Witness ==
    \E r \in DOMAIN results :
        /\ results[r].limit = 1
        /\ Len(results[r].cursors) >= 1
        /\ log[r] = << <<results[r].cursors[1], 2>> >>
        /\ <<results[r].cursors[1], 1>> \in ever
        /\ results[r].docs_returned = 1

\* C7: every Result an extraction returned is in the pool of its
\* Connection; once the Connection is closed every Result of the pool has an
\* empty source list and all its cursors closed, a pull on it yields nothing,
\* and closing the Connection again changes nothing.
C7_PoolInv ==
    /\ \A r \in DOMAIN results : r \in Range(result_pool)
    /\ ~con_open =>
          /\ \A i \in DOMAIN result_pool :
                /\ results[result_pool[i]].cursors = <<>>
                /\ \A c \in Owned(result_pool[i]) : cursors[c].closed
          /\ call.op = "next" => (call.exc = "StopIteration" /\ call.doc = NoDoc)

C7_Step ==
    (~con_open /\ ConnClose) =>
        UNCHANGED <<results, cursors, result_pool, con_open>>

C7_PoolClosed == [](C7_PoolInv) /\ [][C7_Step]_vars

\* C7 witness: the Connection was closed with two Results in its pool, one
\* of them in the middle of a source, and a pull after the close ended at
\* once.
C7_Witness ==
    /\ ~con_open
    /\ Len(result_pool) = 2
    /\ \A r \in DOMAIN results : Owned(r) # {}
    /\ \E c \in DOMAIN cursors : cursors[c].live /\ cursors[c].pos = 1
    /\ call.op = "next"

\* The documents the cursors attached to r have handed out.
RECURSIVE SumPos(_)
SumPos(cs) ==
    IF cs = {} THEN 0
    ELSE LET c == CHOOSE x \in cs : TRUE
         IN cursors[c].pos + SumPos(cs \ {c})

Total(r) == SumPos(Owned(r))

CombinatorKeys == {"$or", "$and"}
KeySet(o) == {o.items[i].key : i \in DOMAIN o.items}
Combinators_of(h, f) ==
    {k \in KeySet(h[f]) \cap CombinatorKeys : h[Get(h[f], k).v].type = "list"}
FieldKeys(h, f) == KeySet(h[f]) \ Combinators_of(h, f)

Form(h, f) ==
    IF KeySet(h[f]) = {} THEN "empty"
    ELSE IF Combinators_of(h, f) = {} THEN "leaf"
    ELSE IF Cardinality(Combinators_of(h, f)) = 1 /\ FieldKeys(h, f) = {}
    THEN "composite"
    ELSE "mixed"

\* The condition-adding calls: condition methods and geo predicates.
CondOps == DOMAIN Methods \cup DOMAIN GeoMethods

\* C9: in every reachable state every Filter is empty, in leaf form (field
\* keys only) or in composite form (exactly one combinator key and no field
\* key); no Filter holds a combinator key together with a field key.
C9_FormsExclusive ==
    \A f \in held : Form(heap, f) \in {"empty", "leaf", "composite"}

\* C10: a condition method or geo predicate called on a Filter that is in
\* composite form raises InvalidFilter and leaves every object as it was.
C10_Step ==
    \A f \in held :
        (/\ Form(heap, f) = "composite"
         /\ calls'.cond = calls.cond + 1
         /\ fcall'.op \in CondOps
         /\ fcall'.self = f)
        => /\ fcall'.exc = "InvalidFilter"
           /\ heap' = heap

C10_CompositeRejects == [][C10_Step]_vars

\* ------------------------------------------------------ malformed arguments
\* The call made by the step raised InvalidFilter and changed no object.
Rejected ==
    /\ fcall'.exc = "InvalidFilter"
    /\ heap' = heap
    /\ held' = held

\* C11: a condition method or geo predicate called with a field that is no
\* str, and any_of / none_of called with a value that is no list (the field
\* being a str or not), raise InvalidFilter at that call and leave the
\* contents of every Filter as they were.
C11_Step ==
    \A f \in held :
        /\ \A m \in DOMAIN Methods, field \in NonStrFields, v \in Values :
              Cond(f, m, field, v) => Rejected
        /\ \A g \in DOMAIN GeoMethods, field \in NonStrFields,
              invert \in BOOLEAN :
              GeoCond(f, g, field, invert) => Rejected
        /\ \A m \in DOMAIN ListMethods, field \in NonStrFields,
              values \in ListValues \cup NonListValues :
              ListCond(f, m, field, values) => Rejected
        /\ \A m \in DOMAIN ListMethods, field \in Fields \cup NonStrFields,
              values \in NonListValues :
              ListCond(f, m, field, values) => Rejected

C11_MalformedRejected == [][C11_Step]_vars

\* C11 witness: any_of / none_of raised InvalidFilter on a Filter that holds
\* two fields.
C11_Witness ==
    /\ fcall.op \in DOMAIN ListMethods
    /\ fcall.exc = "InvalidFilter"
    /\ Cardinality(KeySet(heap[fcall.self])) = 2

\* ------------------------------------------------------ leaf accumulation
\* A dict as a mapping of its keys, and the sub-mapping a Filter holds under
\* a field (the empty mapping if it has none).
AsMap(o) == [k \in KeySet(o) |-> Get(o, k)]
SubMap(h, f, key) ==
    IF Has(h[f], key) THEN AsMap(h[Get(h[f], key).v]) ELSE <<>>

\* What a successful non-inverted call with (field, operation, value) makes
\* of Filter f: the operation is set to the value in the field's sub-mapping,
\* the other operators of the field and the other fields stay.
Accumulated(f, field, operation, value) ==
    /\ fcall'.exc = "none"
    /\ fcall'.ret = f
    /\ KeySet(heap'[f]) = KeySet(heap[f]) \cup {field.v}
    /\ SubMap(heap', f, field.v) =
          [k \in DOMAIN SubMap(heap, f, field.v) \cup {operation} |->
              IF k = operation THEN value ELSE SubMap(heap, f, field.v)[k]]
    /\ \A other \in KeySet(heap[f]) \ {field.v} :
          SubMap(heap', f, other) = SubMap(heap, f, other)

\* C12: every non-inverted condition-adding call on a leaf Filter sets its
\* operator to the value given in the sub-mapping of its field and changes
\* nothing else, so that the sub-mapping of a field holds exactly the
\* operators applied to it, each with the value of its last call.
C12_Step ==
    \A f \in held : Form(heap, f) \in {"empty", "leaf"} =>
        /\ \A m \in DOMAIN Methods, field \in Fields, v \in Values :
              Cond(f, m, field, v) => Accumulated(f, field, Methods[m], v)
        /\ \A m \in DOMAIN ListMethods, field \in Fields,
              values \in ListValues :
              ListCond(f, m, field, values)
              => Accumulated(f, field, ListMethods[m], values)
        /\ \A g \in DOMAIN GeoMethods, field \in Fields :
              GeoCond(f, g, field, FALSE)
              => Accumulated(f, field, GeoMethods[g],
                             Geo(box_polygon(UnitBox)))

C12_Accumulates == [][C12_Step]_vars

\* C12 witness: after a successful condition call a Filter holds a field with
\* two operators next to another field.
C12_Witness ==
    /\ fcall.op \in DOMAIN Methods \cup DOMAIN ListMethods
    /\ fcall.exc = "none"
    /\ \E a, b \in FieldIds :
          /\ a # b
          /\ Cardinality(DOMAIN SubMap(heap, fcall.self, a)) = 2
          /\ Cardinality(DOMAIN SubMap(heap, fcall.self, b)) = 1

\* ---------------------------------------------------------------- is_empty
\* C13: is_empty() is true exactly for a Filter without any key; a Filter
\* just created is empty; a successful condition-adding call leaves its
\* Filter not empty, and a Filter that is not empty stays so under every
\* public operation.
C13_Inv ==
    /\ \A f \in held : is_empty(heap, f) <=> KeySet(heap[f]) = {}
    /\ fcall.op = "Filter" => is_empty(heap, fcall.ret)
    /\ (fcall.op \in CondOps /\ fcall.exc = "none")
         => ~is_empty(heap, fcall.self)

C13_Step == \A f \in held : ~is_empty(heap, f) => ~is_empty(heap', f)

C13_IsEmpty == [](C13_Inv) /\ [][C13_Step]_vars

\* C13 witness: a Filter made not empty by two condition calls is the
\* receiver of a later successful combination and is still not empty.
C13_Witness ==
    /\ fcall.op \in DOMAIN Combinators
    /\ fcall.exc = "none"
    /\ calls.cond = MaxConds
    /\ Cardinality(KeySet(heap[fcall.self])) = 2
    /\ ~is_empty(heap, fcall.self)

\* ------------------------------------------------------------- combinators
\* C14: or_filter, and_filter, | and & raise InvalidFilter when the receiver
\* is empty, when the argument is empty and when the argument is the
\* receiver itself, and leave both operands as they were.
C14_Step ==
    \A f \in held, other \in held, how \in DOMAIN Combinators :
        (/\ Logical(f, how, other)
         /\ \/ KeySet(heap[f]) = {}
            \/ KeySet(heap[other]) = {}
            \/ other = f)
        => Rejected

C14_InvalidOperands == [][C14_Step]_vars

\* C14 witness: a combinator raised InvalidFilter while the only Filter held
\* is not empty, so that the argument was the receiver itself.
C14_Witness ==
    /\ fcall.op \in DOMAIN Combinators
    /\ fcall.exc = "InvalidFilter"
    /\ held = {fcall.self}
    /\ KeySet(heap[fcall.self]) # {}

\* The objects that existed before the step are as they were.
OldObjectsKept == \A i \in DOMAIN heap : heap'[i] = heap[i]

\* Filter f is a composite of combinator op already.
CompositeOf(h, f, op) ==
    Form(h, f) = "composite" /\ Combinators_of(h, f) = {op}

\* The call returned a Filter whose only key is op, bound to a list of two
\* operands: a Filter with the content f had before the call, then other.
Wrapped(f, op, other) ==
    /\ fcall'.exc = "none"
    /\ OldObjectsKept
    /\ LET res == heap'[fcall'.ret]
       IN /\ Keys(res) = <<op>>
          /\ LET operands == heap'[Get(res, op).v]
             IN /\ operands.type = "list"
                /\ Len(operands.items) = 2
                /\ operands.items[1].k = "ref"
                /\ heap'[operands.items[1].v].items = heap[f].items
                /\ operands.items[2] = Ref(other)

\* C15: for a non-empty Filter A that is no composite of the requested
\* combinator and a non-empty Filter B that is another object than A, the
\* query of A.or_filter(B) is {"$or": [A0, B]} and that of A.and_filter(B)
\* is {"$and": [A0, B]}, A0 being the content of A before the call.
C15_Step ==
    \A f \in held, other \in held, how \in {"or_filter", "and_filter"} :
        (/\ Logical(f, how, other)
         /\ KeySet(heap[f]) # {}
         /\ KeySet(heap[other]) # {}
         /\ other # f
         /\ ~CompositeOf(heap, f, Combinators[how]))
        => Wrapped(f, Combinators[how], other)

C15_TwoOperands == [][C15_Step]_vars

\* The operand list of a composite Filter f of combinator op.
Operands(h, f, op) == h[Get(h[f], op).v].items

\* The call returned a Filter whose only key is op, bound to the operands f
\* had before the call followed by other: one list, no nested pair.
Flattened(f, op, other) ==
    /\ fcall'.exc = "none"
    /\ Keys(heap'[fcall'.ret]) = <<op>>
    /\ heap'[Get(heap'[fcall'.ret], op).v].type = "list"
    /\ Operands(heap', fcall'.ret, op) =
          Append(Operands(heap, f, op), Ref(other))

\* C16: chained combinations of one kind are flattened. For non-empty
\* Filters that are pairwise different objects, or_filter / and_filter on a
\* Filter that is no composite of the combinator yet succeeds (the chain's
\* first link), and on a composite of the same combinator it returns the
\* operands in call order with the argument appended, for a chain of any
\* length.
C16_Step ==
    \A f \in held, other \in held, how \in {"or_filter", "and_filter"} :
        (/\ Logical(f, how, other)
         /\ KeySet(heap[f]) # {}
         /\ KeySet(heap[other]) # {}
         /\ other # f)
        => IF CompositeOf(heap, f, Combinators[how])
           THEN Flattened(f, Combinators[how], other)
           ELSE fcall'.exc = "none"

C16_ChainFlattened == [][C16_Step]_vars

\* C17: self-combination is rejected by identity only. or_filter and
\* and_filter called on a non-empty Filter with a non-empty Filter that is
\* another object, holding the same conditions or not, do not raise
\* InvalidFilter.
C17_Step ==
    \A f \in held, other \in held, how \in {"or_filter", "and_filter"} :
        (/\ Logical(f, how, other)
         /\ KeySet(heap[f]) # {}
         /\ KeySet(heap[other]) # {}
         /\ other # f)
        => fcall'.exc # "InvalidFilter"

C17_IdentityOnly == [][C17_Step]_vars

\* C18: or_filter and and_filter modify the receiver in place and return
\* it. After a successful f1.or_filter(f2) the object returned is f1, and
\* f1 holds the combinator key as its only key.
C18_Step ==
    \A f \in held, other \in held, how \in {"or_filter", "and_filter"} :
        (Logical(f, how, other) /\ fcall'.exc = "none")
        => /\ fcall'.ret = f
           /\ Keys(heap'[f]) = <<Combinators[how]>>

C18_InPlace == [][C18_Step]_vars

\* ------------------------------------------------------------ frame effects
\* C19: f1 | f2 and f1 & f2 return a new Filter object and leave the
\* content of f1 and of f2 as it was, the operand list of a composite f1
\* included.
C19_Step ==
    \A f \in held, other \in held, how \in {"pipe", "amp"} :
        (Logical(f, how, other) /\ fcall'.exc = "none")
        => /\ fcall'.ret \notin DOMAIN heap
           /\ QueryOf(heap', f) = QueryOf(heap, f)
           /\ QueryOf(heap', other) = QueryOf(heap, other)

C19_OperandsKept == [][C19_Step]_vars

\* C20: a compiled query is immutable. The document shown by the object
\* that get_query() returned stays the one it showed when it was returned,
\* whatever condition-adding or combinator call is made afterwards.
C20_CompiledImmutable ==
    \A q \in compiled : QueryOf(heap, q.ret) = q.doc

\* --------------------------------------------------------------- geometries
\* The mapping a geo predicate of Filter f writes to: the sub-mapping of the
\* field, or the negation inside it.
GeoTarget(h, f, field, invert) ==
    IF invert THEN AsMap(h[SubMap(h, f, field.v)["$not"].v])
    ELSE SubMap(h, f, field.v)

\* C21: for a bounding box (minX, minY, maxX, maxY) and a geo type ending
\* in "box", geo_within and geo_intersects store under the field a Polygon
\* whose single ring is (minX,minY), (minX,maxY), (maxX,maxY), (maxX,minY),
\* (minX,minY): five points in that order, the last one equal to the first.
C21_Step ==
    \A f \in held, g \in DOMAIN BoxMethods, field \in ChainFields,
       geo \in Boxes, geo_type \in {"bbox", "bounding_box"},
       invert \in BOOLEAN :
        (/\ fcall'.self = f
         /\ fcall'.op = g
         /\ BoxCond(f, g, field, geo, geo_type, invert))
        => /\ fcall'.exc = "none"
           /\ LET stored == GeoTarget(heap', f, field, invert)[BoxMethods[g]]
              IN /\ stored.k = "geo"
                 /\ stored.v.type = "Polygon"
                 /\ Len(stored.v.coordinates) = 1
                 /\ LET ring == stored.v.coordinates[1]
                        minX == geo[1]
                        minY == geo[2]
                        maxX == geo[3]
                        maxY == geo[4]
                    IN /\ ring = << <<minX, minY>>, <<minX, maxY>>,
                                    <<maxX, maxY>>, <<maxX, minY>>,
                                    <<minX, minY>> >>
                       /\ Len(ring) = 5
                       /\ ring[1] = ring[5]

C21_ClosedRing == [][C21_Step]_vars

\* C21 witness: geo_intersects stored the ring of the box (0, 0, 1, 1).
C21_Witness ==
    /\ fcall.op = "geo_intersects"
    /\ fcall.exc = "none"
    /\ \E field \in ChainFields :
          /\ Has(heap[fcall.self], field.v)
          /\ "$geoIntersects" \in DOMAIN SubMap(heap, fcall.self, field.v)
          /\ SubMap(heap, fcall.self, field.v)["$geoIntersects"].v.coordinates
               = << << <<0, 0>>, <<0, 1>>, <<1, 1>>, <<1, 0>>, <<0, 0>> >> >>

\* ------------------------------------------------------ errors of a source
\* C22: a pull in which a cursor raises an OperationFailure of another code
\* than the unauthorized one raises that error to its caller: the pull
\* yields no document, the running count stays, the source index stays on
\* the failing source, no later source is consulted, and the documents
\* yielded before stay as they are.
C22_Step ==
    \A r \in DOMAIN results :
        (/\ call'.op = "next" /\ call'.r = r
         /\ \E k \in call'.codes : k # UNAUTHORIZED_COMMAND)
        => /\ call'.exc = "OperationFailure"
           /\ call'.doc = NoDoc
           /\ log' = log
           /\ ever' = ever
           /\ results'[r].docs_returned = results[r].docs_returned
           /\ results'[r].idx < Len(results[r].cursors)
           /\ \A c \in Owned(r) :
                 SourceIndex(r, c) > results'[r].idx
                 => cursors'[c] = cursors[c]

C22_ErrorSurfaces == [][C22_Step]_vars

\* C23: every pull terminates in a document, in the end of the sequence or
\* in the error of a cursor, whatever the number of exhausted or
\* unauthorized sources in a row, and it advances the source index by at
\* most the number of sources that were left.
C23_Step ==
    \A r \in DOMAIN results :
        (call'.op = "next" /\ call'.r = r)
        => /\ results'[r].idx - results[r].idx
                <= Max(0, Len(results[r].cursors) - results[r].idx)
           /\ \/ call'.exc \in {"none", "StopIteration"}
              \/ \E k \in call'.codes : k # UNAUTHORIZED_COMMAND

C23_PullTerminates == [][C23_Step]_vars

\* ------------------------------------------------------------------ nesting
OtherCombinator(op) == IF op = "$or" THEN "$and" ELSE "$or"

\* C24: combinations of different kinds nest. For non-empty Filters that
\* are pairwise different objects, or_filter / and_filter on a leaf succeeds
\* (the first link A.or_filter(B)), and and_filter on a composite of $or
\* (or_filter on a composite of $and) returns {"$and": [R, C]} (resp.
\* {"$or": [R, C]}), R being the whole composite: two operands, not three.
C24_Step ==
    \A f \in held, other \in held, how \in {"or_filter", "and_filter"} :
        (/\ Logical(f, how, other)
         /\ KeySet(heap[f]) # {}
         /\ KeySet(heap[other]) # {}
         /\ other # f
         /\ \/ Form(heap, f) = "leaf"
            \/ CompositeOf(heap, f, OtherCombinator(Combinators[how])))
        => IF Form(heap, f) = "leaf"
           THEN fcall'.exc = "none"
           ELSE /\ Wrapped(f, Combinators[how], other)
                /\ Keys(heap'[Operands(heap', fcall'.ret,
                                       Combinators[how])[1].v])
                     = <<OtherCombinator(Combinators[how])>>

C24_MixedNested == [][C24_Step]_vars

\* --------------------------------------------------------- form transitions
\* Filter f holds a key named as a combinator.
HoldsCombinatorKey(h, f) == KeySet(h[f]) \cap CombinatorKeys # {}

\* C25: forms change through the combinators only. No condition-adding
\* call, whatever the name of its field, gives a combinator key to a leaf
\* Filter, and no public operation takes a combinator key away from
\* a Filter that holds one.
C25_Step ==
    \A f \in held :
        /\ (/\ Form(heap, f) = "leaf"
            /\ ~HoldsCombinatorKey(heap, f)
            /\ calls'.cond = calls.cond + 1
            /\ fcall'.self = f)
           => ~HoldsCombinatorKey(heap', f)
        /\ HoldsCombinatorKey(heap, f) => HoldsCombinatorKey(heap', f)

C25_FormTransitions == [][C25_Step]_vars

\* ----------------------------------------------------------------- negation
\* The negation a Filter holds inside the sub-mapping of a field, as a
\* mapping (the empty mapping if it has none).
NotMap(h, f, key) ==
    IF "$not" \in DOMAIN SubMap(h, f, key)
    THEN AsMap(h[SubMap(h, f, key)["$not"].v])
    ELSE <<>>

\* C26: geo_within / geo_intersects with invert=True write their geometry
\* inside the $not sub-mapping of the field only: the field gets no other
\* key than $not, the conditions it held outside the negation stay, the
\* operator is set inside the negation next to the inverted operators
\* already there (the same operator is overwritten), and the other fields
\* stay.
C26_Step ==
    \A f \in held, g \in DOMAIN BoxMethods, field \in ChainFields,
       geo \in Boxes, geo_type \in {"bbox", "bounding_box"} :
        (/\ fcall'.self = f
         /\ fcall'.op = g
         /\ BoxCond(f, g, field, geo, geo_type, TRUE))
        => /\ fcall'.exc = "none"
           /\ DOMAIN SubMap(heap', f, field.v)
                = DOMAIN SubMap(heap, f, field.v) \cup {"$not"}
           /\ \A k \in DOMAIN SubMap(heap, f, field.v) \ {"$not"} :
                 SubMap(heap', f, field.v)[k] = SubMap(heap, f, field.v)[k]
           /\ NotMap(heap', f, field.v) =
                 [k \in DOMAIN NotMap(heap, f, field.v) \cup {BoxMethods[g]}
                    |-> IF k = BoxMethods[g] THEN Geo(box_polygon(geo))
                        ELSE NotMap(heap, f, field.v)[k]]
           /\ \A other \in KeySet(heap[f]) \ {field.v} :
                 /\ SubMap(heap', f, other) = SubMap(heap, f, other)
                 /\ NotMap(heap', f, other) = NotMap(heap, f, other)

C26_InvertNegates == [][C26_Step]_vars

\* C26 witness: after an inverted geo predicate the negation of a field holds
\* both geo operators and the field holds no other key.
C26_Witness ==
    /\ fcall.op \in DOMAIN BoxMethods
    /\ fcall.exc = "none"
    /\ \E field \in ChainFields :
          /\ DOMAIN SubMap(heap, fcall.self, field.v) = {"$not"}
          /\ DOMAIN NotMap(heap, fcall.self, field.v)
               = {"$geoWithin", "$geoIntersects"}

\* ------------------------------------------------------------- independence
\* C27: a combined Filter is independent of its operands: a condition-adding
\* call on another Filter leaves the query of every composite Filter
\* unchanged.
C27_Step ==
    \A r \in held, f \in held, m \in DOMAIN Methods,
       field \in Fields, v \in Values :
        (/\ r # f
         /\ fcall'.self = f
         /\ fcall'.op = m
         /\ Form(heap, r) = "composite"
         /\ Form(heap, f) = "leaf"
         /\ Cond(f, m, field, v))
        => QueryOf(heap', r) = QueryOf(heap, r)

C27_Independent == [][C27_Step]_vars

\* ------------------------------------------------------------ the database
\* The collections of the database that deny the count with code, and the
\* sum of the counts of the others.
RECURSIVE CountOfOthers(_, _, _)
CountOfOthers(colls, empty, code) ==
    IF colls = <<>> THEN 0
    ELSE (IF Head(colls).code = code THEN 0
          ELSE IF empty THEN Head(colls).docs ELSE Head(colls).matching)
         + CountOfOthers(Tail(colls), empty, code)

\* C28: when no collection fails with another code than the unauthorized
\* one, count_entries returns an integer, the sum of the counts of the
\* collections that do not deny the count.
C28_CountSkipsDenied ==
    (/\ acall.op = "count_entries"
     /\ \A i \in DOMAIN db : db[i].code \in {0, UNAUTHORIZED_COMMAND})
    => /\ acall.exc = "none"
       /\ acall.ret = Num(CountOfOthers(db, acall.arg = 1, UNAUTHORIZED_COMMAND))

\* C30: when list_collection_names() returned, list_available_collections
\* returns the names without "system" in them, in their order, and no other.
C30_NoSystemNames ==
    (/\ acall.op = "list_available_collections"
     /\ acall.arg = 0)
    => /\ acall.exc = "none"
       /\ acall.ret = Lst(SelectSeq(names_of(db), LAMBDA n : ~in_system(n)))

\* ------------------------------------------------------- end-of-sequence
\* C29: once a pull of a traversal has signalled end-of-sequence, every later
\* pull of that traversal signals end-of-sequence and yields no document.
C29_Step ==
    \A r \in DOMAIN results :
        (/\ ended[r]
         /\ call'.op = "next"
         /\ call'.r = r
         /\ Pull(r))
        => /\ call'.exc = "StopIteration"
           /\ call'.doc = NoDoc

C29_EndSticky == [][C29_Step]_vars

====
